---- MODULE Spec2Model ----
(***************************************************************************)
(* SampleFlow::Consumers::CovarianceMatrix                                 *)
(* (include/sampleflow/consumers/covariance_matrix.h).                     *)
(*                                                                         *)
(* The class keeps n_samples, current_mean and current_covariance_matrix   *)
(* behind one std::mutex; consume() updates them, get() copies the matrix. *)
(*                                                                         *)
(* Scalars (scalar_type) are modelled as exact rationals <<num, den>> in   *)
(* lowest terms with den > 0, so that equality of values is equality of    *)
(* their representation.  Vectors are sequences of scalars, matrices are   *)
(* sequences of rows; the code's indices 0..n-1 are 1..n here.             *)
(*                                                                         *)
(* Three specifications share the operators that model the code:           *)
(*   Spec        one accumulator, calls made one after the other;          *)
(*   SpecPair    two fresh accumulators fed independently (for statements  *)
(*               that compare two runs);                                   *)
(*   SpecThreads one accumulator, several threads, every statement between *)
(*               lock and unlock a step of its own.                        *)
(***************************************************************************)
EXTENDS Integers, Sequences, FiniteSets, TLC

(* ------------------------------ bounds --------------------------------- *)

\* Calls made on the accumulator of Spec.
MaxCalls == 3

\* Samples fed to each accumulator of SpecPair.
MaxPairLen == 3

\* Calls started, all threads together, in SpecThreads.
MaxOps == 3

\* SpecMixed: the calls the threads start.
MaxMixedOps == 2

(* ------------------------- exact scalar arithmetic ---------------------- *)

Abs(x) == IF x < 0 THEN -x ELSE x

RECURSIVE Gcd(_, _)
Gcd(a, b) == IF b = 0 THEN a ELSE Gcd(b, a % b)

\* The scalar num/den, den # 0, in lowest terms with a positive denominator.
Norm(num, den) ==
  LET g == Gcd(Abs(num), Abs(den))
      s == IF den < 0 THEN -1 ELSE 1
  IN  <<s * (num \div g), s * (den \div g)>>

Rat(i) == <<i, 1>>

RAdd(a, b) == Norm(a[1] * b[2] + b[1] * a[2], a[2] * b[2])

RSub(a, b) == Norm(a[1] * b[2] - b[1] * a[2], a[2] * b[2])

RMul(a, b) == Norm(a[1] * b[1], a[2] * b[2])

\* a / k for the positive sample count k.
RDivN(a, k) == Norm(a[1], a[2] * k)

(* ------------------------------ vectors -------------------------------- *)

\* The vector with the integer components of the tuple t.
Vec(t) == [i \in 1..Len(t) |-> Rat(t[i])]

\* The value an out-of-range or uninitialised scalar read may yield.
Indeterminate == {Rat(0), Rat(-1)}

\* v[i], or the indeterminate value g when i is past the end of v.
At(v, i, g) == IF i \in 1..Len(v) THEN v[i] ELSE g

\* a -= b (line 171, 178): runs over a's elements.
VSubAssign(a, b, g) == [i \in 1..Len(a) |-> RSub(a[i], At(b, i, g))]

\* a /= k (line 179).
VDivAssign(a, k) == [i \in 1..Len(a) |-> RDivN(a[i], k)]

\* An a += b that gives a the size of b.
VAddAssignSizing(a, b, g) == [i \in 1..Len(b) |-> RAdd(At(a, i, g), b[i])]

\* a += b (line 181): runs over a's elements.
VAddAssign(a, b, g) == [i \in 1..Len(a) |-> RAdd(a[i], At(b, i, g))]

(* ------------------------------ matrices ------------------------------- *)

\* The default-constructed ublas matrix: 0 rows, 0 columns.
EmptyMatrix == <<>>

Rows(m) == Len(m)

Cols(m) == IF Len(m) = 0 THEN 0 ELSE Len(m[1])

\* Every r-by-c content freshly allocated storage may hold.
FreshStorage(r, c) == [1..r -> [1..c -> Indeterminate]]

\* matrix::resize(r, c) (preserve = true): the entries the old matrix has
\* are kept, the others are whatever the new storage holds; nothing is
\* written to them.
resize(m, r, c, fresh) ==
  [i \in 1..r |-> [j \in 1..c |->
     IF i <= Rows(m) /\ j <= Cols(m) THEN m[i][j] ELSE fresh[i][j]]]

InRange(m, i, j) == i \in 1..Rows(m) /\ j \in 1..Cols(m)

(* ------------------------- CovarianceMatrix state ----------------------- *)

\* The member variables as one value.
State(n, mean, cov) ==
  [n_samples |-> n, current_mean |-> mean, current_covariance_matrix |-> cov]

\* A constructor that sizes the matrix.
CovarianceMatrixSized == State(0, <<>>, <<<<Rat(0)>>>>)

\* The constructor: n_samples (0), the other members default-constructed.
CovarianceMatrix == State(0, <<>>, EmptyMatrix)

(* ------------------------------ consume -------------------------------- *)

\* What the code leaves to the build and the heap.  fresh: the content of the
\* storage resize() allocates.  On a sample whose size differs from the size
\* of current_mean the vector operations and the matrix indexing of lines
\* 171-181 are out of range, which is undefined; kind names what the build
\* makes of it and g is the value an out-of-range read yields:
\*   "bad_size"   InputType checks sizes: line 171 throws;
\*   "bad_index"  the matrix checks indices: line 174 throws at the first
\*                index outside the matrix;
\*   "unchecked"  nothing is checked: reads past the end yield g, writes
\*                outside the matrix do not reach it;
\*   "crash"      the process is killed.
Kinds == {"bad_size", "bad_index", "unchecked", "crash"}

NoChoice == [fresh |-> EmptyMatrix, kind |-> "unchecked", g |-> Rat(0)]

ChoicesFor(st, sample) ==
  IF st.n_samples = 0
    THEN [fresh : FreshStorage(Len(sample), Len(sample)),
          kind : {"unchecked"}, g : {Rat(0)}]
    ELSE IF Len(sample) = Len(st.current_mean)
      THEN {NoChoice}
      ELSE [fresh : {EmptyMatrix}, kind : Kinds, g : Indeterminate]

\* The two-delta (Welford) update: delta[i] times the deviation of the
\* sample from the mean after the update.
CovEntryWelford(cov, delta, i, j, k) ==
  IF InRange(cov, i, j)
    THEN [cov EXCEPT ![i][j] =
            RAdd(@, RMul(delta[i], RDivN(RMul(delta[j], Rat(k - 1)), k)))]
    ELSE cov

\* Line 174: current_covariance_matrix(i,j) += delta[i]*delta[j]/n_samples,
\* with k the value of n_samples after line 168.  A write outside the
\* matrix does not reach it.
CovEntry(cov, delta, i, j, k) ==
  IF InRange(cov, i, j)
    THEN [cov EXCEPT ![i][j] = RAdd(@, RDivN(RMul(delta[i], delta[j]), k))]
    ELSE cov

\* The loops of lines 172-174 over i, j < m in row-major order, from the
\* p-th pair on and up to (not including) the stop-th.
RECURSIVE CovLoop(_, _, _, _, _, _)
CovLoop(cov, delta, k, m, p, stop) ==
  IF p >= stop
    THEN cov
    ELSE CovLoop(CovEntry(cov, delta, (p \div m) + 1, (p % m) + 1, k),
                 delta, k, m, p + 1, stop)

\* The first pair (in loop order) that indexes outside cov; m * m if none.
RECURSIVE FirstBad(_, _, _)
FirstBad(cov, m, p) ==
  IF p >= m * m \/ ~InRange(cov, (p \div m) + 1, (p % m) + 1)
    THEN p
    ELSE FirstBad(cov, m, p + 1)

\* delta without line 171.
DeltaNotCentred(sample, mean, g) == sample

\* Lines 170-171.
Delta(sample, mean, g) == VSubAssign(sample, mean, g)

\* The update divided by the count before line 168.
MeanUpdateOldCount(mean, sample, k, g) ==
  VAddAssign(mean, VDivAssign(VSubAssign(sample, mean, g), k - 1), g)

\* Lines 177-181 with k the incremented n_samples.
MeanUpdate(mean, sample, k, g) ==
  VAddAssign(mean, VDivAssign(VSubAssign(sample, mean, g), k), g)

\* A first sample that leaves n_samples alone.
FirstSampleNoCount(st, sample, ub) ==
  [st EXCEPT !.current_covariance_matrix =
                resize(@, Len(sample), Len(sample), ub.fresh),
             !.current_mean = sample]

\* Lines 158-163: the first sample.
FirstSample(st, sample, ub) ==
  [st EXCEPT !.n_samples = 1,
             !.current_covariance_matrix =
                resize(@, Len(sample), Len(sample), ub.fresh),
             !.current_mean = sample]

\* Line 168: ++n_samples.
Increment(st) == [st EXCEPT !.n_samples = @ + 1]

\* Lines 170-181 run to the end on sample, n_samples incremented already,
\* with g the value of a read past the end of a vector (there is none when
\* the sizes agree).
Rest(st, sample, g) ==
  LET k == st.n_samples
      m == Len(sample)
  IN  State(k,
            MeanUpdate(st.current_mean, sample, k, g),
            CovLoop(st.current_covariance_matrix,
                    Delta(sample, st.current_mean, g), k, m, 0, m * m))

\* Lines 164-182 for a sample of the size of current_mean.
NextSample(st, sample) == Rest(Increment(st), sample, Rat(0))

\* Lines 170-181 for a sample of another size, n_samples incremented
\* already: the build decides.  The result carries how the call ended.
MismatchRest(st, sample, ub) ==
  LET k == st.n_samples
      m == Len(sample)
      cov == st.current_covariance_matrix
  IN  CASE ub.kind = "bad_size" -> [st |-> st, outcome |-> "exception"]
        [] ub.kind = "crash" -> [st |-> st, outcome |-> "crash"]
        [] ub.kind = "bad_index" /\ FirstBad(cov, m, 0) < m * m ->
             [st |-> [st EXCEPT !.current_covariance_matrix =
                        CovLoop(cov, Delta(sample, st.current_mean, ub.g),
                                k, m, 0, FirstBad(cov, m, 0))],
              outcome |-> "exception"]
        [] OTHER -> [st |-> Rest(st, sample, ub.g), outcome |-> "ok"]

\* Lines 164-182 for a sample of another size.
Mismatch(st, sample, ub) == MismatchRest(Increment(st), sample, ub)

\* consume (sample, aux_data), lines 151-183, from lock to unlock: the state
\* it leaves and how it ended ("ok": it returned).
consume(st, sample, ub) ==
  IF st.n_samples = 0
    THEN [st |-> FirstSample(st, sample, ub), outcome |-> "ok"]
    ELSE IF Len(sample) = Len(st.current_mean)
      THEN [st |-> NextSample(st, sample), outcome |-> "ok"]
      ELSE Mismatch(st, sample, ub)

(* -------------------------------- get ---------------------------------- *)

\* get (), lines 190-195: a copy of current_covariance_matrix.
get(st) == st.current_covariance_matrix


(* ------------------------------- state --------------------------------- *)

VARIABLES
  \* the members of the accumulator (lines 117-134); mutex is the thread
  \* holding it, 0 when it is free
  n_samples, current_mean, current_covariance_matrix, mutex,
  \* Spec: the calls made so far, how the last one ended, the matrices the
  \* get() calls returned
  calls, outcome, ret,
  \* SpecPair: the two accumulators, each with the samples fed to it and the
  \* matrix get() returned after the first of them (in a sequence, empty
  \* before)
  run1, run2,
  \* SpecThreads: per thread the statement it is at, the sample of its call,
  \* its local delta, its loop position and the matrices its get() calls
  \* returned; then the calls started, the samples in the order their
  \* consume() calls took the lock, and the matrices held at each unlock of
  \* a consume() call (before the first: the constructor's)
  pc, sample, delta, pos, result, started, order, committed

accVars == <<n_samples, current_mean, current_covariance_matrix, mutex>>

callVars == <<calls, outcome, ret>>

pairVars == <<run1, run2>>

threadVars == <<pc, sample, delta, pos, result, started, order, committed>>

vars == <<accVars, callVars, pairVars, threadVars>>

\* The accumulator's members as one value.
Acc == State(n_samples, current_mean, current_covariance_matrix)

Threads == {1, 2}

FreshRun == [st |-> CovarianceMatrix, xs |-> <<>>, first |-> <<>>]

Init ==
  /\ n_samples = CovarianceMatrix.n_samples
  /\ current_mean = CovarianceMatrix.current_mean
  /\ current_covariance_matrix = CovarianceMatrix.current_covariance_matrix
  /\ mutex = 0
  /\ calls = <<>>
  /\ outcome = "none"
  /\ ret = <<>>
  /\ run1 = FreshRun
  /\ run2 = FreshRun
  /\ pc = [t \in Threads |-> "idle"]
  /\ sample = [t \in Threads |-> <<>>]
  /\ delta = [t \in Threads |-> <<>>]
  /\ pos = [t \in Threads |-> 0]
  /\ result = [t \in Threads |-> <<>>]
  /\ started = <<>>
  /\ order = <<>>
  /\ committed = <<EmptyMatrix>>

(* ------------------- Spec: one accumulator, one caller ------------------ *)

\* The samples the caller draws from: sizes 1 and 2.
Samples ==
  {Vec(<<1>>), Vec(<<3>>), Vec(<<5>>), Vec(<<1, 2>>), Vec(<<2, 1>>)}

ConsumeCall(s) == [op |-> "consume", sample |-> s]

GetCall == [op |-> "get", sample |-> <<>>]

\* One consume(s) call, from lock to unlock.
Consume(s) ==
  /\ Len(calls) < MaxCalls
  /\ outcome # "crash"
  /\ mutex = 0
  /\ \E ub \in ChoicesFor(Acc, s) :
       LET r == consume(Acc, s, ub)
       IN  /\ n_samples' = r.st.n_samples
           /\ current_mean' = r.st.current_mean
           /\ current_covariance_matrix' = r.st.current_covariance_matrix
           /\ outcome' = r.outcome
  /\ calls' = Append(calls, ConsumeCall(s))
  /\ UNCHANGED <<mutex, ret, pairVars, threadVars>>

\* A get() that moves the matrix out instead of copying it.
GetMoving ==
  /\ Len(calls) < MaxCalls
  /\ outcome # "crash"
  /\ mutex = 0
  /\ ret' = Append(ret, get(Acc))
  /\ current_covariance_matrix' = EmptyMatrix
  /\ outcome' = "ok"
  /\ calls' = Append(calls, GetCall)
  /\ UNCHANGED <<n_samples, current_mean, mutex, pairVars, threadVars>>

\* One get() call, from lock to unlock.
Get ==
  /\ Len(calls) < MaxCalls
  /\ outcome # "crash"
  /\ mutex = 0
  /\ ret' = Append(ret, get(Acc))
  /\ outcome' = "ok"
  /\ calls' = Append(calls, GetCall)
  /\ UNCHANGED <<accVars, pairVars, threadVars>>

Next == (\E s \in Samples : Consume(s)) \/ Get

Spec == Init /\ [][Next]_vars


(* ------------- SpecPair: two fresh accumulators, fed apart -------------- *)

\* The samples fed to the two accumulators.
PairSamples == {Vec(<<1>>), Vec(<<3>>), Vec(<<5>>)}

\* consume(s) on the accumulator of run r, which has returned; the caller
\* keeps the matrix get() returns after the first sample.
Fed(r, s, ub) ==
  LET st == consume(r.st, s, ub).st
  IN  [st |-> st,
       xs |-> Append(r.xs, s),
       first |-> IF r.xs = <<>> THEN <<get(st)>> ELSE r.first]

CanFeed(r, s) ==
  /\ Len(r.xs) < MaxPairLen
  /\ r.xs # <<>> => Len(s) = Len(r.xs[1])

Feed1(s) ==
  /\ CanFeed(run1, s)
  /\ \E ub \in ChoicesFor(run1.st, s) : run1' = Fed(run1, s, ub)
  /\ UNCHANGED <<accVars, callVars, run2, threadVars>>

Feed2(s) ==
  /\ CanFeed(run2, s)
  /\ \E ub \in ChoicesFor(run2.st, s) : run2' = Fed(run2, s, ub)
  /\ UNCHANGED <<accVars, callVars, run1, threadVars>>

NextPair == \E s \in PairSamples : Feed1(s) \/ Feed2(s)

SpecPair == Init /\ [][NextPair]_vars


(* ------------- SpecThreads: one accumulator, several threads ------------ *)

\* The samples the threads draw from, all of one size.
ThreadSamples == {Vec(<<1, 2>>), Vec(<<2, 1>>)}

At_(t, l) == pc[t] = l

Goto(t, l) == pc' = [pc EXCEPT ![t] = l]

\* A lock that never blocks.
CanLockAlways == TRUE

\* std::lock_guard's constructor (lines 153, 192): blocks while the mutex is
\* held.
CanLock == mutex = 0

\* std::lock_guard's destructor: the mutex after thread t leaves the scope.
Unlocked(t) == IF mutex = t THEN 0 ELSE mutex

\* A thread calls consume(s).
StartConsume(t, s) ==
  /\ At_(t, "idle")
  /\ Len(started) < MaxOps
  /\ started' = Append(started, ConsumeCall(s))
  /\ sample' = [sample EXCEPT ![t] = s]
  /\ Goto(t, "l153")
  /\ UNCHANGED <<accVars, callVars, pairVars, delta, pos, result, order,
                 committed>>

\* consume() without line 153.
L153NoLock(t) ==
  /\ At_(t, "l153")
  /\ order' = Append(order, sample[t])
  /\ Goto(t, "l158")
  /\ UNCHANGED <<accVars, callVars, pairVars, sample, delta, pos, result,
                 started, committed>>

\* Line 153.
L153(t) ==
  /\ At_(t, "l153")
  /\ CanLock
  /\ mutex' = t
  /\ order' = Append(order, sample[t])
  /\ Goto(t, "l158")
  /\ UNCHANGED <<n_samples, current_mean, current_covariance_matrix,
                 callVars, pairVars, sample, delta, pos, result, started,
                 committed>>

\* Line 158.
L158(t) ==
  /\ At_(t, "l158")
  /\ Goto(t, IF n_samples = 0 THEN "l160" ELSE "l168")
  /\ UNCHANGED <<accVars, callVars, pairVars, sample, delta, pos, result,
                 started, order, committed>>

\* Line 160.
L160(t) ==
  /\ At_(t, "l160")
  /\ n_samples' = 1
  /\ Goto(t, "l161")
  /\ UNCHANGED <<current_mean, current_covariance_matrix, mutex, callVars,
                 pairVars, sample, delta, pos, result, started, order,
                 committed>>

\* Line 161.
L161(t) ==
  /\ At_(t, "l161")
  /\ \E fresh \in FreshStorage(Len(sample[t]), Len(sample[t])) :
       current_covariance_matrix' =
         resize(current_covariance_matrix, Len(sample[t]), Len(sample[t]),
                fresh)
  /\ Goto(t, "l162")
  /\ UNCHANGED <<n_samples, current_mean, mutex, callVars, pairVars, sample,
                 delta, pos, result, started, order, committed>>

\* Line 162.
L162(t) ==
  /\ At_(t, "l162")
  /\ current_mean' = sample[t]
  /\ Goto(t, "l183")
  /\ UNCHANGED <<n_samples, current_covariance_matrix, mutex, callVars,
                 pairVars, sample, delta, pos, result, started, order,
                 committed>>

\* Line 168.
L168(t) ==
  /\ At_(t, "l168")
  /\ n_samples' = Increment(Acc).n_samples
  /\ Goto(t, "l170")
  /\ UNCHANGED <<current_mean, current_covariance_matrix, mutex, callVars,
                 pairVars, sample, delta, pos, result, started, order,
                 committed>>

\* Lines 170-171 (the sample has the size of current_mean).
L170(t) ==
  /\ At_(t, "l170")
  /\ Len(sample[t]) = Len(current_mean)
  /\ delta' = [delta EXCEPT ![t] = Delta(sample[t], current_mean, Rat(0))]
  /\ pos' = [pos EXCEPT ![t] = 0]
  /\ Goto(t, "l174")
  /\ UNCHANGED <<accVars, callVars, pairVars, sample, result, started, order,
                 committed>>

\* Line 174 for the pair (i, j) at the loop position of thread t.
L174(t) ==
  /\ At_(t, "l174")
  /\ LET m == Len(sample[t])
     IN  /\ current_covariance_matrix' =
              CovEntry(current_covariance_matrix, delta[t],
                       (pos[t] \div m) + 1, (pos[t] % m) + 1, n_samples)
         /\ pos' = [pos EXCEPT ![t] = @ + 1]
         /\ Goto(t, IF pos[t] + 1 >= m * m THEN "l177" ELSE "l174")
  /\ UNCHANGED <<n_samples, current_mean, mutex, callVars, pairVars, sample,
                 delta, result, started, order, committed>>

\* Lines 177-181.
L177(t) ==
  /\ At_(t, "l177")
  /\ current_mean' = MeanUpdate(current_mean, sample[t], n_samples, Rat(0))
  /\ Goto(t, "l183")
  /\ UNCHANGED <<n_samples, current_covariance_matrix, mutex, callVars,
                 pairVars, sample, delta, pos, result, started, order,
                 committed>>

\* Line 183: consume() returns (or unwinds) and the lock_guard unlocks.
L183(t) ==
  /\ At_(t, "l183")
  /\ mutex' = Unlocked(t)
  /\ committed' = Append(committed, current_covariance_matrix)
  /\ Goto(t, "idle")
  /\ UNCHANGED <<n_samples, current_mean, current_covariance_matrix,
                 callVars, pairVars, sample, delta, pos, result, started,
                 order>>

\* A thread calls get().
StartGet(t) ==
  /\ At_(t, "idle")
  /\ Len(started) < MaxOps
  /\ started' = Append(started, GetCall)
  /\ Goto(t, "l192")
  /\ UNCHANGED <<accVars, callVars, pairVars, sample, delta, pos, result,
                 order, committed>>

\* get() without line 192.
L192NoLock(t) ==
  /\ At_(t, "l192")
  /\ Goto(t, "l194")
  /\ UNCHANGED <<accVars, callVars, pairVars, sample, delta, pos, result,
                 started, order, committed>>

\* Line 192.
L192(t) ==
  /\ At_(t, "l192")
  /\ CanLock
  /\ mutex' = t
  /\ Goto(t, "l194")
  /\ UNCHANGED <<n_samples, current_mean, current_covariance_matrix,
                 callVars, pairVars, sample, delta, pos, result, started,
                 order, committed>>

\* Line 194: the copy that is returned.
L194(t) ==
  /\ At_(t, "l194")
  /\ result' = [result EXCEPT ![t] = Append(@, get(Acc))]
  /\ Goto(t, "l195")
  /\ UNCHANGED <<accVars, callVars, pairVars, sample, delta, pos, started,
                 order, committed>>

\* Line 195: get() returns and the lock_guard unlocks.
L195(t) ==
  /\ At_(t, "l195")
  /\ mutex' = Unlocked(t)
  /\ Goto(t, "idle")
  /\ UNCHANGED <<n_samples, current_mean, current_covariance_matrix,
                 callVars, pairVars, sample, delta, pos, result, started,
                 order, committed>>

NextThreads ==
  \E t \in Threads :
    \/ \E s \in ThreadSamples : StartConsume(t, s)
    \/ L153(t) \/ L158(t) \/ L160(t) \/ L161(t) \/ L162(t) \/ L168(t)
    \/ L170(t) \/ L174(t) \/ L177(t) \/ L183(t)
    \/ StartGet(t) \/ L192(t) \/ L194(t) \/ L195(t)

SpecThreads == Init /\ [][NextThreads]_vars


(* -------- SpecMixed: several threads, samples of different sizes -------- *)

\* The samples the threads draw from: sizes 1 and 2.
MixedSamples == {Vec(<<1>>), Vec(<<1, 2>>)}

\* The process is killed: no thread takes another step, a thread inside a
\* call stays inside it ("killed") and whatever it held it holds for ever.
Killed ==
  pc' = [u \in Threads |-> IF pc[u] = "idle" THEN "dead" ELSE "killed"]

\* Lines 170-181 for a sample of another size than current_mean: the build
\* decides (MismatchRest).  The call runs to its end or unwinds with an
\* exception, both through the lock_guard's destructor at line 183, or the
\* process is killed inside the call.
L170Mismatch(t) ==
  /\ At_(t, "l170")
  /\ Len(sample[t]) # Len(current_mean)
  /\ \E ub \in ChoicesFor(Acc, sample[t]) :
       LET r == MismatchRest(Acc, sample[t], ub)
       IN  /\ n_samples' = r.st.n_samples
           /\ current_mean' = r.st.current_mean
           /\ current_covariance_matrix' = r.st.current_covariance_matrix
           /\ IF r.outcome = "crash" THEN Killed ELSE Goto(t, "l183")
  /\ UNCHANGED <<mutex, callVars, pairVars, sample, delta, pos, result,
                 started, order, committed>>

\* The steps of thread t.
Step(t) ==
  \/ Len(started) < MaxMixedOps /\ \E s \in MixedSamples : StartConsume(t, s)
  \/ L153(t) \/ L158(t) \/ L160(t) \/ L161(t) \/ L162(t) \/ L168(t)
  \/ L170(t) \/ L170Mismatch(t) \/ L174(t) \/ L177(t) \/ L183(t)
  \/ Len(started) < MaxMixedOps /\ StartGet(t)
  \/ L192(t) \/ L194(t) \/ L195(t)

NextMixed == \E t \in Threads : Step(t)

\* Every thread that can take a step takes one in the end.
SpecMixed == Init /\ [][NextMixed]_vars /\ \A t \in Threads : WF_vars(Step(t))


(* ============================== claims ================================== *)

\* The samples of the consume() calls made so far in Spec, in call order.
ConsumedCalls == SelectSeq(calls, LAMBDA c : c.op = "consume")

Consumed == [i \in 1..Len(ConsumedCalls) |-> ConsumedCalls[i].sample]

\* Every sample of xs has the size of the first.
SameSize(xs) == \A i \in 1..Len(xs) : Len(xs[i]) = Len(xs[1])

\* The n-by-n matrix of zeros.
ZeroMatrix(n) == [i \in 1..n |-> [j \in 1..n |-> Rat(0)]]

\* The step is a consume(s) call of Spec.
IsConsume(s) == calls' = Append(calls, ConsumeCall(s))

(* ------------------------------- C1 ------------------------------------ *)

\* C1: when count >= 1 and the dimension is n, a consume(sample) call with
\* length(sample) # n ends with the outcome DimensionMismatch and leaves
\* count, mean and covariance (so also get()) as they were.
C1_MismatchRejected ==
  [][\A s \in Samples :
       (IsConsume(s) /\ n_samples >= 1 /\ Len(s) # Len(current_mean))
         => /\ outcome' = "DimensionMismatch"
            /\ n_samples' = n_samples
            /\ current_mean' = current_mean
            /\ current_covariance_matrix' = current_covariance_matrix
            /\ get(Acc)' = get(Acc)]_vars

(* ------------------------------- C2 ------------------------------------ *)

\* The update lines 168-181 make on a sample s of the size of current_mean,
\* entry by entry, with k the incremented count.
UpdateRule(s) ==
  LET k == n_samples + 1
      n == Len(current_mean)
      d(i) == RSub(s[i], current_mean[i])
  IN  /\ n_samples' = k
      /\ current_mean' =
           [i \in 1..n |-> RAdd(current_mean[i], RDivN(d(i), k))]
      /\ current_covariance_matrix' =
           [i \in 1..n |-> [j \in 1..n |->
              RAdd(current_covariance_matrix[i][j],
                   RDivN(RMul(d(i), d(j)), k))]]

OneThreeFive == <<Vec(<<1>>), Vec(<<3>>), Vec(<<5>>)>>

\* C2: every consume(sample) made when count >= 1 with length(sample) = n
\* adds (sample[i] - mean[i]) * (sample[j] - mean[j]) / k to covariance[i][j]
\* and (sample - mean) / k to mean, k = count + 1 the new count; and
\* consuming 1, 3, 5 on a fresh accumulator ends with get() = [[5]] and
\* mean = 3.
C2_UpdateAndWorkedExample ==
  [][/\ \A s \in Samples :
          (IsConsume(s) /\ n_samples >= 1 /\ Len(s) = Len(current_mean))
            => UpdateRule(s)
     /\ (Consumed = OneThreeFive)'
          => (get(Acc) = <<<<Rat(5)>>>> /\ current_mean = Vec(<<3>>))']_vars

\* The part of C2 the code keeps: the update of a same-size sample, and the
\* mean of the worked example.
C2_UpdateRuleOnly ==
  [][/\ \A s \in Samples :
          (IsConsume(s) /\ n_samples >= 1 /\ Len(s) = Len(current_mean))
            => UpdateRule(s)
     /\ (Consumed = OneThreeFive)' => (current_mean = Vec(<<3>>))']_vars

(* ------------------------------- C3 ------------------------------------ *)

\* The samples of the consume() calls the threads have started, in the
\* order the calls were made.
SubmittedCalls == SelectSeq(started, LAMBDA c : c.op = "consume")

Submitted == [i \in 1..Len(SubmittedCalls) |-> SubmittedCalls[i].sample]

\* No call is in progress.
Quiescent == \A t \in Threads : pc[t] = "idle"

\* Every order of the samples xs.
Perms(xs) ==
  LET n == Len(xs)
  IN  {[i \in 1..n |-> xs[f[i]]] :
         f \in {g \in [1..n -> 1..n] : \A a, b \in 1..n : g[a] = g[b] => a = b}}

\* The samples xs consumed one call after the other from state st, the
\* storage of the first resize holding fresh.
RECURSIVE Sequentially(_, _, _)
Sequentially(st, xs, fresh) ==
  IF xs = <<>>
    THEN st
    ELSE Sequentially(
           consume(st, Head(xs), [NoChoice EXCEPT !.fresh = fresh]).st,
           Tail(xs), fresh)

\* What the storage of the first resize held: the matrix at the first
\* unlock of a consume() call.
FirstStorage == IF Len(committed) >= 2 THEN committed[2] ELSE EmptyMatrix

\* C3: whatever the interleaving of the threads' consume() calls on samples
\* of one size, once they have all returned (count, mean, covariance) is
\* what consuming those samples one after the other, in some order of them,
\* produces.
C3_SomeSequentialOrder ==
  Quiescent
    => \E p \in Perms(Submitted) :
         Acc = Sequentially(CovarianceMatrix, p, FirstStorage)

\* Three calls have returned, and they took the lock in another order than
\* they were made in.
C3_Witness ==
  /\ Quiescent
  /\ Len(Submitted) = 3
  /\ order # Submitted
  /\ Submitted[1] # Submitted[2]

(* ------------------------------- C4 ------------------------------------ *)

\* The matrix held after the first j consume() calls in lock order.
CovAfter(j) ==
  get(Sequentially(CovarianceMatrix, SubSeq(order, 1, j), FirstStorage))

\* C4: every matrix a get() returns, whatever consume() calls run beside it,
\* is the covariance held after a whole number of completed consume() calls
\* in lock order; never a matrix with part of an update.
C4_GetSeesWholeUpdates ==
  \A t \in Threads :
    \A r \in 1..Len(result[t]) :
      \E j \in 0..(Len(committed) - 1) : result[t][r] = CovAfter(j)

\* A get() has copied the matrix the one completed consume() call left while
\* another thread's consume() waits for the lock.
C4_Witness ==
  \E t, u \in Threads :
    /\ pc[t] = "l195"
    /\ pc[u] = "l153"
    /\ Len(committed) = 2
    /\ result[t] = <<CovAfter(1)>>
    /\ CovAfter(1) # EmptyMatrix

(* ------------------------------- C5 ------------------------------------ *)

\* The a-th components of xs[1..j] added up.
RECURSIVE VSum(_, _, _)
VSum(xs, j, a) ==
  IF j = 0 THEN Rat(0) ELSE RAdd(VSum(xs, j - 1, a), xs[j][a])

\* xbar_j: the mean of the first j samples, a-th component.
RunningMean(xs, j, a) == RDivN(VSum(xs, j, a), j)

\* (x_l - xbar_l)(x_l - xbar_l)^T at (a, b), added up over l = 1..j.
RECURSIVE OuterSum(_, _, _, _)
OuterSum(xs, j, a, b) ==
  IF j = 0
    THEN Rat(0)
    ELSE RAdd(OuterSum(xs, j - 1, a, b),
              RMul(RSub(xs[j][a], RunningMean(xs, j, a)),
                   RSub(xs[j][b], RunningMean(xs, j, b))))

\* C_k of the class documentation (lines 31-34) for the samples xs.
DocCov(xs) ==
  LET k == Len(xs)
      n == Len(xs[1])
  IN  [a \in 1..n |-> [b \in 1..n |-> RDivN(OuterSum(xs, k, a, b), k)]]

\* The caller read the matrix once, right after the first sample, and it
\* was the zero matrix.
ReadZeroAfterFirst ==
  /\ Len(calls) >= 2
  /\ calls[1].op = "consume"
  /\ calls[2].op = "get"
  /\ \A i \in 3..Len(calls) : calls[i].op = "consume"
  /\ ret = <<ZeroMatrix(Len(calls[1].sample))>>

\* C5: after k >= 1 samples x_1..x_k, get() returns
\* C_k = (1/k) sum_j (x_j - xbar_j)(x_j - xbar_j)^T, xbar_j the running mean
\* of the first j samples.  Stated for the runs in which the matrix read
\* after the first sample was zero, where the formula and the code agree on
\* the first sample.
C5_DocFormula ==
  (Len(Consumed) >= 1 /\ SameSize(Consumed) /\ ReadZeroAfterFirst)
    => get(Acc) = DocCov(Consumed)

(* ------------------------------- C6 ------------------------------------ *)

\* C6: after the first consume(sample) on a fresh accumulator, count = 1,
\* mean = sample and get() returns the n-by-n zero matrix.
C6_FirstSampleZero ==
  (Len(calls) = 1 /\ calls[1].op = "consume")
    => /\ n_samples = 1
       /\ current_mean = calls[1].sample
       /\ get(Acc) = ZeroMatrix(Len(calls[1].sample))

\* The part of C6 the code keeps: count, mean and the matrix's size.
C6_FirstSampleShape ==
  (Len(calls) = 1 /\ calls[1].op = "consume")
    => /\ n_samples = 1
       /\ current_mean = calls[1].sample
       /\ Rows(get(Acc)) = Len(calls[1].sample)
       /\ Cols(get(Acc)) = Len(calls[1].sample)

(* ------------------------------- C7 ------------------------------------ *)

\* C7: get() on an accumulator on which no consume() has completed succeeds
\* and returns the 0-by-0 matrix.
C7_EmptyRead ==
  (calls # <<>> /\ \A i \in 1..Len(calls) : calls[i].op = "get")
    => /\ outcome = "ok"
       /\ Len(ret) = Len(calls)
       /\ \A i \in 1..Len(ret) :
            ret[i] = EmptyMatrix /\ Rows(ret[i]) = 0 /\ Cols(ret[i]) = 0

C7_Witness ==
  /\ Len(calls) >= 2
  /\ \A i \in 1..Len(calls) : calls[i].op = "get"
  /\ ret = <<EmptyMatrix, EmptyMatrix>>

(* ------------------------------- C8 ------------------------------------ *)

FiveThreeOne == <<Vec(<<5>>), Vec(<<3>>), Vec(<<1>>)>>

OneFiveThree == <<Vec(<<1>>), Vec(<<5>>), Vec(<<3>>)>>

\* C8: consuming 1, 3, 5 on one fresh accumulator and 5, 3, 1 on another
\* produces different final covariance values from get().
C8_ReversedOrderDiffers ==
  (run1.xs = OneThreeFive /\ run2.xs = FiveThreeOne)
    => get(run1.st) # get(run2.st)

\* C8 as amended: of two fresh accumulators whose get() matrices after the
\* first sample are equal, the one consuming 1, 3, 5 and the one consuming
\* 5, 3, 1 end with equal matrices, and the one consuming 1, 3, 5 and the one
\* consuming 1, 5, 3 end with different matrices.
C8_ReversedOrderAgrees ==
  /\ (run1.xs = OneThreeFive /\ run2.xs = FiveThreeOne
        /\ run1.first = run2.first)
       => get(run1.st) = get(run2.st)
  /\ (run1.xs = OneThreeFive /\ run2.xs = OneFiveThree
        /\ run1.first = run2.first)
       => get(run1.st) # get(run2.st)

C8_Witness ==
  /\ run1.xs = OneThreeFive
  /\ run2.xs = FiveThreeOne
  /\ run1.first = run2.first
  /\ get(run1.st) = get(run2.st)

(* ------------------------------- C9 ------------------------------------ *)

\* How often v occurs in xs.
Occurrences(xs, v) == Cardinality({i \in 1..Len(xs) : xs[i] = v})

\* xs and ys hold the same samples, each as often.
SameMultiset(xs, ys) ==
  /\ Len(xs) = Len(ys)
  /\ \A i \in 1..Len(xs) : Occurrences(xs, xs[i]) = Occurrences(ys, xs[i])

\* C9: the final count is the same for every order of one multiset of
\* samples, and there are two orders of one multiset (1, 3, 5 and 1, 5, 3,
\* from equal matrices after the first sample) whose final mean and
\* covariance are not both the same.
C9_CountOnlyIsOrderFree ==
  /\ SameMultiset(run1.xs, run2.xs)
       => run1.st.n_samples = run2.st.n_samples
  /\ (run1.xs = OneThreeFive /\ run2.xs = OneFiveThree
        /\ run1.first = run2.first)
       => <<run1.st.current_mean, run1.st.current_covariance_matrix>>
            # <<run2.st.current_mean, run2.st.current_covariance_matrix>>

C9_Witness ==
  /\ run1.xs = OneThreeFive
  /\ run2.xs = OneFiveThree
  /\ run1.first = run2.first
  /\ run1.st.n_samples = run2.st.n_samples
  /\ get(run1.st) # get(run2.st)

(* ------------------------------- C10 ----------------------------------- *)

\* C10: after k >= 1 consume() calls with samples x_1..x_k of one size, the
\* stored mean is (x_1 + ... + x_k) / k in every component.
C10_MeanExact ==
  (Len(Consumed) >= 1 /\ SameSize(Consumed))
    => LET k == Len(Consumed)
       IN  /\ n_samples = k
           /\ Len(current_mean) = Len(Consumed[1])
           /\ \A a \in 1..Len(current_mean) :
                current_mean[a] = RDivN(VSum(Consumed, k, a), k)

\* Three samples whose mean is no integer.
C10_Witness ==
  /\ Len(Consumed) = 3
  /\ SameSize(Consumed)
  /\ current_mean[1][2] = 3

(* ------------------------------- C11 ----------------------------------- *)

Symmetric(m) ==
  \A i \in 1..Rows(m) : \A j \in 1..Cols(m) : m[i][j] = m[j][i]

\* C11: in every reachable state with count >= 1 the covariance matrix is
\* symmetric: covariance[i][j] = covariance[j][i] for all i, j.
C11_Symmetric == n_samples >= 1 => Symmetric(current_covariance_matrix)

\* The part of C11 the code keeps: once a first sample is held, no call makes
\* a symmetric matrix asymmetric.
C11_SymmetryKept ==
  [][n_samples >= 1 /\ Symmetric(current_covariance_matrix)
       => Symmetric(current_covariance_matrix)']_vars


(* ------------------------------- C12 ----------------------------------- *)

IsGet == calls' = Append(calls, GetCall)

\* C12: the accumulator starts Empty (count = 0); a consume() in Empty leaves
\* it Accumulating (count >= 1), a get() in Empty leaves it Empty, and once
\* count >= 1 it stays >= 1 under every consume() and get().
C12_Lifecycle ==
  /\ n_samples = 0
  /\ [][/\ (n_samples = 0 /\ (\E s \in Samples : IsConsume(s)))
             => n_samples' >= 1
        /\ (n_samples = 0 /\ IsGet) => n_samples' = 0
        /\ n_samples >= 1 => n_samples' >= 1]_vars

\* Accumulating after a consume(), a get() and a further consume().
C12_Witness ==
  /\ Len(calls) = 3
  /\ calls[1].op = "consume"
  /\ calls[2].op = "get"
  /\ calls[3].op = "consume"
  /\ n_samples = 2

(* ------------------------------- C13 ----------------------------------- *)

\* C13: get(), in Empty and in Accumulating alike, leaves count, mean and
\* covariance as they are; it only returns a copy of the matrix.
C13_GetIsPure ==
  [][IsGet => /\ UNCHANGED <<n_samples, current_mean,
                            current_covariance_matrix>>
              /\ ret' = Append(ret, current_covariance_matrix)]_vars

\* A get() in Empty and a get() in Accumulating have returned, and the
\* members are those the consume() between them left.
C13_Witness ==
  /\ Len(calls) = 3
  /\ calls[1].op = "get"
  /\ calls[2].op = "consume"
  /\ calls[3].op = "get"
  /\ ret = <<EmptyMatrix, current_covariance_matrix>>
  /\ n_samples = 1
  /\ current_mean = calls[2].sample


(* ------------------------------- C14 ----------------------------------- *)

\* C14: in every reachable state with count >= 1, mean has length n and
\* covariance has n rows and n columns, n the length of the first sample ever
\* consumed; no later call changes these dimensions.
C14_Dimensions ==
  n_samples >= 1 =>
    LET n == Len(Consumed[1])
    IN  /\ Len(current_mean) = n
        /\ Rows(current_covariance_matrix) = n
        /\ Cols(current_covariance_matrix) = n

\* Three samples consumed, one of them of another length than the first, and
\* the last call returned: the dimensions are still those of the first.
C14_Witness ==
  /\ n_samples = 3
  /\ Len(Consumed) = 3
  /\ outcome = "ok"
  /\ Len(Consumed[1]) = 2
  /\ Len(Consumed[3]) = 1
  /\ Len(current_mean) = 2
  /\ Rows(current_covariance_matrix) = 2


(* ------------------------------- C15 ----------------------------------- *)

\* Thread t has started a call that has not completed.
InCall(t) == pc[t] \notin {"idle", "dead"}

\* C15: every consume() and get() call releases the lock on every exit path,
\* a consume() of a sample of the wrong length included, so that under fair
\* scheduling every call that has started completes in the end, and the lock
\* is free whenever no call is in progress.
C15_EveryCallCompletes ==
  /\ [](Quiescent => mutex = 0)
  /\ \A t \in Threads : InCall(t) ~> ~InCall(t)

\* The part of C15 the code keeps: the lock is free whenever no call is in
\* progress.
C15_LockFreeWhenQuiescent == Quiescent => mutex = 0

\* The part of C15 the code keeps: a call that has started completes in the
\* end unless the process is killed.
C15_CompletesUnlessKilled ==
  \A t \in Threads : InCall(t) ~> (~InCall(t) \/ pc[t] = "killed")


(* ------------------------------- C16 ----------------------------------- *)

\* Every sample of xs is the first one.
AllEqual(xs) == \A i \in 1..Len(xs) : xs[i] = xs[1]

\* C16: after the same vector has been consumed twice (or more often) by a
\* fresh accumulator, every entry of the matrix get() returns is zero.
C16_IdenticalSamplesZero ==
  (Len(Consumed) >= 2 /\ AllEqual(Consumed))
    => get(Acc) = ZeroMatrix(Len(Consumed[1]))

\* The part of C16 the code keeps: consuming the sample consumed so far once
\* more leaves the matrix as it is.
C16_IdenticalAddsNothing ==
  [][\A s \in Samples :
       (IsConsume(s) /\ Len(Consumed) >= 1 /\ AllEqual(Append(Consumed, s)))
         => current_covariance_matrix' = current_covariance_matrix]_vars


(* ------------------------------- C17 ----------------------------------- *)

\* The statement thread t is at reads or writes count, mean or covariance.
Accessing(t) ==
  pc[t] \in {"l158", "l160", "l161", "l162", "l168", "l170", "l174", "l177",
             "l194"}

\* C17: at any instant at most one thread is reading or writing count, mean
\* or covariance, and no thread accesses them without holding the lock.
C17_MutualExclusion ==
  /\ \A t \in Threads : Accessing(t) => mutex = t
  /\ \A t, u \in Threads : (Accessing(t) /\ Accessing(u)) => t = u

\* One thread is half-way through the update loop of its consume() while
\* the other waits for the lock.
C17_Witness ==
  \E t, u \in Threads :
    /\ pc[t] = "l174"
    /\ pos[t] = 2
    /\ mutex = t
    /\ pc[u] \in {"l153", "l192"}


(* ------------------------------- C18 ----------------------------------- *)

\* C18: count always equals the number of consume() calls that have
\* completed successfully.  Step by step: a consume() that returns adds
\* exactly 1 to count, a consume() that does not return successfully and a
\* get() add nothing.
C18_CountsSuccessfulCalls ==
  [][/\ \A s \in Samples :
          IsConsume(s) =>
            n_samples' = n_samples + (IF outcome' = "ok" THEN 1 ELSE 0)
     /\ IsGet => n_samples' = n_samples]_vars

\* The part of C18 the code keeps: every call adds exactly 1 to count if it
\* is a consume() and nothing if it is a get(), however the call ends.
C18_CountsCalls ==
  [][/\ \A s \in Samples : IsConsume(s) => n_samples' = n_samples + 1
     /\ IsGet => n_samples' = n_samples]_vars

\* The part of C18 the code keeps: when the consume() calls of several
\* threads, all of samples of one size, have run in whatever interleaving,
\* count is the number of these calls (no increment is lost).
C18_NoLostIncrement == Quiescent => n_samples = Len(Submitted)


(* ------------------------------- C19 ----------------------------------- *)

\* The rational a is >= the rational b (denominators are positive).
RGeq(a, b) == a[1] * b[2] >= b[1] * a[2]

Diagonal(m) == [i \in 1..Rows(m) |-> m[i][i]]

\* C19: in every state with count >= 1 each diagonal entry of the covariance
\* matrix is non-negative, and a consume() that returns never decreases a
\* diagonal entry.
C19_DiagonalNonNegative ==
  [][/\ n_samples' >= 1 =>
          \A i \in 1..Rows(current_covariance_matrix') :
            RGeq(Diagonal(current_covariance_matrix')[i], Rat(0))
     /\ \A s \in Samples :
          (IsConsume(s) /\ n_samples >= 1 /\ outcome' = "ok") =>
            \A i \in 1..Rows(current_covariance_matrix) :
              RGeq(Diagonal(current_covariance_matrix')[i],
                   Diagonal(current_covariance_matrix)[i])]_vars

\* The part of C19 the code keeps: no call decreases a diagonal entry (what
\* line 174 adds to entry (i, i) is a square divided by the count).
C19_DiagonalNeverDecreases ==
  [][n_samples >= 1 =>
       \A i \in 1..Rows(current_covariance_matrix) :
         RGeq(Diagonal(current_covariance_matrix')[i],
              Diagonal(current_covariance_matrix)[i])]_vars


(* ------------------------------- C20 ----------------------------------- *)

\* The offsets between two samples of PairSamples, 0 left out.
Offsets == {-4, -2, 2, 4}

\* The vector x + c, c added to every component.
Shifted(x, c) == [i \in 1..Len(x) |-> RAdd(x[i], Rat(c))]

\* ys is xs with c added to every sample.
ShiftedBy(xs, ys, c) ==
  /\ Len(ys) = Len(xs)
  /\ \A i \in 1..Len(xs) : ys[i] = Shifted(xs[i], c)

\* C20: the covariance is translation-invariant: an accumulator that has
\* consumed x_1 + c, ..., x_k + c returns from get() the matrix one that has
\* consumed x_1, ..., x_k returns.
C20_TranslationInvariant ==
  \A c \in Offsets :
    (run1.xs # <<>> /\ ShiftedBy(run1.xs, run2.xs, c))
      => get(run1.st) = get(run2.st)

\* The part of C20 the code keeps: the two matrices are equal when they were
\* equal after the first sample, and the means differ by c.
C20_TranslationAfterFirst ==
  \A c \in Offsets :
    (run1.xs # <<>> /\ ShiftedBy(run1.xs, run2.xs, c)
       /\ run1.first = run2.first)
      => /\ get(run1.st) = get(run2.st)
         /\ run2.st.current_mean = Shifted(run1.st.current_mean, c)

\* Both accumulators have consumed three samples, those of the second the
\* first's shifted by 2, and the first get() of both returned the same.
C20_Reached ==
  /\ run1.xs = <<Vec(<<1>>), Vec(<<3>>), Vec(<<1>>)>>
  /\ ShiftedBy(run1.xs, run2.xs, 2)
  /\ run1.first = run2.first


====
